---- MODULE Spec2Model ----
(***************************************************************************)
(* Model of the valuation engine of server/services/valuation_models:      *)
(* the stage registry of ValuationEngine and the four stage models         *)
(* (PreSeedModel, SeedModel, SeriesAModel, GrowthModel).                   *)
(*                                                                         *)
(* Python numbers are modelled as exact decimal-scaled rationals           *)
(* n/d * 10^e: the arithmetic of the formulas is exact, floating-point     *)
(* rounding, NaN and infinities are not modelled.  A Python value carries  *)
(* its run-time type (float, int or str), because the schema validation    *)
(* tests it with isinstance.  The markdown fence lines that open and close *)
(* base.py, series_a.py, growth.py and __init__.py are taken as markup,    *)
(* not as program text.                                                    *)
(***************************************************************************)
EXTENDS Integers, Sequences, FiniteSets, TLC

VARIABLES models, weights, default_multiple, dcf_weight, comparable_weight, region_risk_data, pc, call, invoked, outcome

vars == <<models, weights, default_multiple, dcf_weight, comparable_weight, region_risk_data, pc, call, invoked, outcome>>

(***************************************************************************)
(* Bounds of the input grids.                                              *)
(***************************************************************************)
\* ratio-valued inputs are k/RatioSteps for k in -1 .. RatioSteps+1
RatioSteps == 2
\* money-valued inputs are k million for k in -1 .. MaxMillions
MaxMillions == 2

(***************************************************************************)
(* Exact arithmetic on numbers n/d * 10^e (d > 0).                         *)
(***************************************************************************)
Abs(x) == IF x < 0 THEN -x ELSE x

RECURSIVE GCD(_, _)
GCD(a, b) == IF b = 0 THEN a ELSE GCD(b, a % b)

RECURSIVE Pow10(_)
Pow10(k) == IF k = 0 THEN 1 ELSE 10 * Pow10(k - 1)

RECURSIVE StripTens(_, _)
\* <<m, k>> with x = m * 10^k and m not a multiple of 10 (x # 0)
StripTens(x, k) == IF x % 10 = 0 THEN StripTens(x \div 10, k + 1) ELSE <<x, k>>

Norm(n, d, e) ==
    IF n = 0 THEN [n |-> 0, d |-> 1, e |-> 0]
    ELSE LET g  == GCD(Abs(n), d)
             sn == StripTens(Abs(n) \div g, 0)
             sd == StripTens(d \div g, 0)
         IN  [n |-> (IF n < 0 THEN -1 ELSE 1) * sn[1], d |-> sd[1], e |-> e + sn[2] - sd[2]]

R(n, d) == Norm(n, d, 0)

Num(n) == R(n, 1)

Sign(a) == IF a.n < 0 THEN -1 ELSE IF a.n = 0 THEN 0 ELSE 1

Neg(a) == [a EXCEPT !.n = -a.n]

Mul(a, b) ==
    LET g1 == GCD(Abs(a.n), b.d)
        g2 == GCD(Abs(b.n), a.d)
    IN  IF a.n = 0 \/ b.n = 0 THEN Num(0)
        ELSE Norm((a.n \div g1) * (b.n \div g2), (a.d \div g2) * (b.d \div g1), a.e + b.e)

Add(a, b) ==
    LET m  == IF a.n = 0 THEN b.e ELSE IF b.n = 0 THEN a.e ELSE IF a.e < b.e THEN a.e ELSE b.e
        na == a.n * Pow10(IF a.n = 0 THEN 0 ELSE a.e - m)
        nb == b.n * Pow10(IF b.n = 0 THEN 0 ELSE b.e - m)
        g  == GCD(a.d, b.d)
    IN  Norm(na * (b.d \div g) + nb * (a.d \div g), (a.d \div g) * b.d, m)

Sub(a, b) == Add(a, Neg(b))

\* 1/a for a # 0
Inv(a) == [n |-> Sign(a) * a.d, d |-> Abs(a.n), e |-> -a.e]

\* a/b for b # 0; the callers model Python's ZeroDivisionError for b = 0
Div(a, b) == Mul(a, Inv(b))

Eq(a, b) == Sign(Sub(a, b)) = 0

Lt(a, b) == Sign(Sub(a, b)) < 0

Le(a, b) == Sign(Sub(a, b)) <= 0

Gt(a, b) == Lt(b, a)

MinNum(a, b) == IF Lt(b, a) THEN b ELSE a

MaxNum(a, b) == IF Gt(b, a) THEN b ELSE a

AbsNum(a) == [a EXCEPT !.n = Abs(a.n)]

RECURSIVE PowNum(_, _)
PowNum(a, k) == IF k = 0 THEN Num(1) ELSE Mul(a, PowNum(a, k - 1))

RECURSIVE SumSeq(_)
SumSeq(s) == IF Len(s) = 0 THEN Num(0) ELSE Add(Head(s), SumSeq(Tail(s)))

(***************************************************************************)
(* Python values, input mappings and call outcomes.                        *)
(***************************************************************************)
FloatV(x) == [t |-> "float", v |-> x, s |-> ""]

IntV(k) == [t |-> "int", v |-> Num(k), s |-> ""]

StrV(s) == [t |-> "str", v |-> Num(0), s |-> s]

\* marks a key that the input mapping does not hold
Absent == [t |-> "absent", v |-> Num(0), s |-> ""]

\* the dict whose keys are the fields of `full` that are not Absent
Mapping(full) == [k \in {f \in DOMAIN full : full[f].t # "absent"} |-> full[k]]

EmptyDict == [k \in {} |-> Absent]

Raise(exc, msg) == [kind |-> "raise", exc |-> exc, msg |-> msg]

Bool(b) == [kind |-> "bool", b |-> b]

Schema(fields) == [kind |-> "schema", fields |-> fields]

Continue == [kind |-> "continue"]

NoOutcome == [kind |-> "none"]

NoCall == [target |-> "none", op |-> "none", stage |-> "", inputs |-> EmptyDict]

\* ValuationResult(value, confidence, methodology, risk_factors)
ValuationResult(value, confidence, methodology, risk_factors) ==
    [kind |-> "result", value |-> value, confidence |-> confidence, methodology |-> methodology, risk_factors |-> risk_factors]

\* isinstance(value, type)
IsInstance(value, type) == value.t = type

\* value < bound and value > bound between a Python value and a number:
\* a str operand raises TypeError
PyCompare(value, bound) ==
    IF value.t = "str" THEN "TypeError"
    ELSE IF Lt(value.v, bound) THEN "lt"
    ELSE IF Gt(value.v, bound) THEN "gt"
    ELSE "eq"

\* float(value): a number converts to the float of the same value, a string
\* that is not a numeral raises ValueError
PyFloat(value) ==
    IF value.t \in {"float", "int"} THEN [ok |-> TRUE, v |-> value.v]
    ELSE [ok |-> FALSE, v |-> Num(0)]

\* d.get(k, default)
DictGet(d, k, default) == IF k \in DOMAIN d THEN d[k] ELSE default

RECURSIVE ExtractFloats(_, _, _)
\* the statements x = float(inputs[field]), one per field of `fields`, in
\* order: the first that raises, or Continue
ExtractFloats(inputs, fields, i) ==
    IF i > Len(fields) THEN Continue
    ELSE IF fields[i] \notin DOMAIN inputs THEN Raise("KeyError", fields[i])
    ELSE IF ~PyFloat(inputs[fields[i]]).ok THEN Raise("ValueError", "could not convert string to float")
    ELSE ExtractFloats(inputs, fields, i + 1)

\* str.lower() on the region strings of the model
Lower(s) ==
    CASE s = "Europe" -> "europe"
      [] s = "AFRICA" -> "africa"
      [] OTHER -> s

(***************************************************************************)
(* BaseValuationModel                                                      *)
(***************************************************************************)
\* all(field in inputs for field in required_fields)
BaseValidateInputs(inputs, required_fields) ==
    \A i \in 1..Len(required_fields) : required_fields[i] \in DOMAIN inputs

(***************************************************************************)
(* Schema-driven validation (PreSeedModel and SeedModel hold the same      *)
(* loop).  A schema is the ordered dict of get_required_fields: a sequence *)
(* of [field, rules]; rules holds "min" and "max" only where declared.     *)
(***************************************************************************)
\* CheckField with the range checks placed before the isinstance check
CheckFieldRangeFirst(inputs, field, rules) ==
    IF field \notin DOMAIN inputs THEN Bool(FALSE)
    ELSE IF "min" \in DOMAIN rules /\ PyCompare(inputs[field], rules.min) = "TypeError" THEN Raise("TypeError", "'<' not supported")
    ELSE IF "min" \in DOMAIN rules /\ PyCompare(inputs[field], rules.min) = "lt" THEN Bool(FALSE)
    ELSE IF "max" \in DOMAIN rules /\ PyCompare(inputs[field], rules.max) = "TypeError" THEN Raise("TypeError", "'>' not supported")
    ELSE IF "max" \in DOMAIN rules /\ PyCompare(inputs[field], rules.max) = "gt" THEN Bool(FALSE)
    ELSE IF ~IsInstance(inputs[field], rules.type) THEN Bool(FALSE)
    ELSE Continue

\* the loop body for one field: Bool(FALSE) for `return False`, Continue
\* when every check passes
CheckField(inputs, field, rules) ==
    IF field \notin DOMAIN inputs THEN Bool(FALSE)
    ELSE IF ~IsInstance(inputs[field], rules.type) THEN Bool(FALSE)
    ELSE IF "min" \in DOMAIN rules /\ PyCompare(inputs[field], rules.min) = "TypeError" THEN Raise("TypeError", "'<' not supported")
    ELSE IF "min" \in DOMAIN rules /\ PyCompare(inputs[field], rules.min) = "lt" THEN Bool(FALSE)
    ELSE IF "max" \in DOMAIN rules /\ PyCompare(inputs[field], rules.max) = "TypeError" THEN Raise("TypeError", "'>' not supported")
    ELSE IF "max" \in DOMAIN rules /\ PyCompare(inputs[field], rules.max) = "gt" THEN Bool(FALSE)
    ELSE Continue

RECURSIVE ValidateLoop(_, _, _)
\* for field, rules in required_fields.items(): ...; return True
ValidateLoop(required_fields, inputs, i) ==
    IF i > Len(required_fields) THEN Bool(TRUE)
    ELSE LET c == CheckField(inputs, required_fields[i].field, required_fields[i].rules)
         IN  IF c.kind = "continue" THEN ValidateLoop(required_fields, inputs, i + 1) ELSE c

(***************************************************************************)
(* PreSeedModel                                                            *)
(***************************************************************************)
PreSeedWeights == [tam |-> R(4, 10), team |-> R(6, 10)]

PreSeedGetRequiredFields ==
    << [field |-> "tam", rules |-> [type |-> "float", min |-> Num(1000000)]],
       [field |-> "team_score", rules |-> [type |-> "float", min |-> Num(0), max |-> Num(1)]],
       [field |-> "current_traction", rules |-> [type |-> "float", min |-> Num(0)]] >>

PreSeedValidateInputs(inputs) == ValidateLoop(PreSeedGetRequiredFields, inputs, 1)

\* (tam * weights['tam']) + (team_score * 1e6 * weights['team'])
ScorecardValuation(w, tam, team_score) ==
    Add(Mul(tam, w.tam), Mul(Mul(team_score, Num(1000000)), w.team))

\* 1 - min(1, (current_traction / tam if tam > 0 else 0))
MarketRisk(current_traction, tam) ==
    Sub(Num(1), MinNum(Num(1), IF Gt(tam, Num(0)) THEN Div(current_traction, tam) ELSE Num(0)))

PreSeedResult(w, tam, team_score, current_traction) ==
    LET valuation         == ScorecardValuation(w, tam, team_score)
        market_risk_score == MarketRisk(current_traction, tam)
        risk_factors      == [market_risk |-> market_risk_score, execution_risk |-> Sub(Num(1), team_score)]
        confidence        == Add(Mul(R(7, 10), Sub(Num(1), market_risk_score)), Mul(R(3, 10), team_score))
    IN  ValuationResult(valuation, confidence, "Pre-Seed Scorecard", risk_factors)

PreSeedCalculate(w, inputs) ==
    LET valid == PreSeedValidateInputs(inputs)
        conv  == ExtractFloats(inputs, <<"tam", "team_score">>, 1)
        ct    == PyFloat(DictGet(inputs, "current_traction", IntV(0)))
    IN  IF valid.kind = "raise" THEN valid
        ELSE IF ~valid.b THEN Raise("ValueError", "Invalid inputs")
        ELSE IF conv.kind = "raise" THEN conv
        ELSE IF ~ct.ok THEN Raise("ValueError", "could not convert string to float")
        ELSE PreSeedResult(w, PyFloat(inputs["tam"]).v, PyFloat(inputs["team_score"]).v, ct.v)

(***************************************************************************)
(* SeedModel                                                               *)
(***************************************************************************)
SeedGetRequiredFields ==
    << [field |-> "mrr", rules |-> [type |-> "float", min |-> Num(10000)]],
       [field |-> "mom_growth", rules |-> [type |-> "float", min |-> Num(0), max |-> Num(1)]],
       [field |-> "churn", rules |-> [type |-> "float", min |-> R(1, 100), max |-> Num(1)]],
       [field |-> "cac", rules |-> [type |-> "float", min |-> Num(0)]],
       [field |-> "ltv", rules |-> [type |-> "float", min |-> Num(0)]] >>

SeedValidateInputs(inputs) == ValidateLoop(SeedGetRequiredFields, inputs, 1)

\* annual_revenue * multiple, or the ValueError for churn <= 0
BottomUpDcf(multiple, mrr, mom_growth, churn) ==
    IF Le(churn, Num(0)) THEN Raise("ValueError", "Churn rate must be greater than 0")
    ELSE [kind |-> "value",
          v |-> Mul(Mul(mrr, PowNum(Add(Num(1), mom_growth), 12)),
                    Div(Mul(multiple, Add(Num(1), mom_growth)), churn))]

\* CacRatioAlert with the ratio of a zero ltv taken as 0 instead of inf
CacRatioAlertZeroRatio(cac, ltv) ==
    IF Gt(ltv, Num(0)) THEN Gt(Div(cac, ltv), R(3, 10)) ELSE FALSE

\* the warning flag: ratio > 0.3 with ratio = cac / ltv if ltv > 0 else inf
\* (the message text is dropped by calculate)
CacRatioAlert(cac, ltv) ==
    IF Gt(ltv, Num(0)) THEN Gt(Div(cac, ltv), R(3, 10)) ELSE TRUE

SeedResult(multiple, mrr, mom_growth, churn, cac, ltv) ==
    LET valuation    == BottomUpDcf(multiple, mrr, mom_growth, churn)
        cac_warning  == CacRatioAlert(cac, ltv)
        risk_factors == [churn_risk |-> MinNum(Num(1), Mul(churn, Num(12))),
                         growth_sustainability |-> Div(Num(1), Add(Num(1), mom_growth)),
                         unit_economics |-> IF Gt(ltv, Num(0)) THEN Div(cac, ltv) ELSE Num(1)]
        base_confidence == IF cac_warning THEN Mul(R(8, 10), R(8, 10)) ELSE R(8, 10)
        total        == SumSeq(<<risk_factors.churn_risk, risk_factors.growth_sustainability, risk_factors.unit_economics>>)
        confidence   == Mul(base_confidence, Sub(Num(1), Div(total, Num(3))))
    IN  IF valuation.kind = "raise" THEN valuation
        ELSE IF Eq(mom_growth, Num(-1)) THEN Raise("ZeroDivisionError", "float division by zero")
        ELSE ValuationResult(valuation.v, confidence, "Seed Bottom-up DCF", risk_factors)

SeedCalculate(multiple, inputs) ==
    LET valid == SeedValidateInputs(inputs)
        conv  == ExtractFloats(inputs, <<"mrr", "mom_growth", "churn", "cac", "ltv">>, 1)
    IN  IF valid.kind = "raise" THEN valid
        ELSE IF ~valid.b THEN Raise("ValueError", "Invalid inputs")
        ELSE IF conv.kind = "raise" THEN conv
        ELSE SeedResult(multiple, PyFloat(inputs["mrr"]).v, PyFloat(inputs["mom_growth"]).v, PyFloat(inputs["churn"]).v, PyFloat(inputs["cac"]).v, PyFloat(inputs["ltv"]).v)

(***************************************************************************)
(* SeriesAModel                                                            *)
(***************************************************************************)
SeriesARequiredFields ==
    <<"dcf_value", "comparable_value", "equity_ratio", "debt_ratio", "cost_of_equity", "cost_of_debt", "tax_rate">>

\* (dcf_value * dcf_weight) + (comparable_value * comparable_weight)
HybridValuation(dw, cw, dcf_value, comparable_value) ==
    Add(Mul(dcf_value, dw), Mul(comparable_value, cw))

\* (equity_ratio * cost_of_equity) + (debt_ratio * cost_of_debt * (1 - tax_rate))
WaccCalculator(equity_ratio, debt_ratio, cost_of_equity, cost_of_debt, tax_rate) ==
    Add(Mul(equity_ratio, cost_of_equity), Mul(Mul(debt_ratio, cost_of_debt), Sub(Num(1), tax_rate)))

SeriesAResult(dw, cw, dcf_value, comparable_value, equity_ratio, debt_ratio, cost_of_equity, cost_of_debt, tax_rate) ==
    LET wacc      == WaccCalculator(equity_ratio, debt_ratio, cost_of_equity, cost_of_debt, tax_rate)
        valuation == HybridValuation(dw, cw, dcf_value, comparable_value)
        larger    == MaxNum(dcf_value, comparable_value)
        risk_factors == [capital_structure_risk |-> debt_ratio,
                         cost_of_capital_risk |-> Div(wacc, R(15, 100)),
                         valuation_divergence |-> Div(AbsNum(Sub(dcf_value, comparable_value)), larger)]
        total      == SumSeq(<<risk_factors.capital_structure_risk, risk_factors.cost_of_capital_risk, risk_factors.valuation_divergence>>)
        confidence == Mul(R(9, 10), Sub(Num(1), Div(total, Num(3))))
    IN  IF Eq(larger, Num(0)) THEN Raise("ZeroDivisionError", "float division by zero")
        ELSE ValuationResult(valuation, confidence, "Series A Hybrid", risk_factors)

SeriesACalculate(dw, cw, inputs) ==
    LET conv == ExtractFloats(inputs, SeriesARequiredFields, 1)
        x(f) == PyFloat(inputs[f]).v
    IN  IF ~BaseValidateInputs(inputs, SeriesARequiredFields) THEN Raise("ValueError", "Missing required fields")
        ELSE IF conv.kind = "raise" THEN conv
        ELSE SeriesAResult(dw, cw, x("dcf_value"), x("comparable_value"), x("equity_ratio"), x("debt_ratio"), x("cost_of_equity"), x("cost_of_debt"), x("tax_rate"))

(***************************************************************************)
(* GrowthModel                                                             *)
(***************************************************************************)
GrowthRequiredFields == <<"fcf", "growth_rate", "wacc", "region">>

\* _load_region_risk_data: data/region_risk.json is not among the sources,
\* so the load takes the FileNotFoundError branch
LoadRegionRiskData ==
    [north_america |-> Num(1), europe |-> R(9, 10), asia_pacific |-> R(85, 100), latin_america |-> R(8, 10), africa |-> R(75, 100)]

\* (fcf * (1 + growth_rate)) / (wacc - growth_rate), or the ValueError for
\* wacc <= growth_rate
TerminalValue(fcf, growth_rate, wacc) ==
    IF Le(wacc, growth_rate) THEN Raise("ValueError", "WACC must be greater than growth rate")
    ELSE [kind |-> "value", v |-> Div(Mul(fcf, Add(Num(1), growth_rate)), Sub(wacc, growth_rate))]

\* value * region_risk_data.get(region.lower(), 0.8)
RegionRiskAdjustment(table, value, region) ==
    Mul(value, DictGet(table, Lower(region), R(8, 10)))

GrowthResult(table, fcf, growth_rate, wacc, region) ==
    LET base_value     == TerminalValue(fcf, growth_rate, wacc)
        adjusted_value == RegionRiskAdjustment(table, base_value.v, region)
        scale          == Add(Num(1), Div(fcf, Num(1000000)))
        risk_factors   == [growth_risk |-> Div(growth_rate, wacc),
                           region_risk |-> Sub(Num(1), DictGet(table, region, R(8, 10))),
                           scale_risk |-> Div(Num(1), scale)]
        total      == SumSeq(<<risk_factors.growth_risk, risk_factors.region_risk, risk_factors.scale_risk>>)
        confidence == Mul(R(85, 100), Sub(Num(1), Div(total, Num(3))))
    IN  IF base_value.kind = "raise" THEN base_value
        ELSE IF Eq(wacc, Num(0)) \/ Eq(scale, Num(0)) THEN Raise("ZeroDivisionError", "float division by zero")
        ELSE ValuationResult(adjusted_value, confidence, "Growth Terminal Value", risk_factors)

GrowthCalculate(table, inputs) ==
    LET conv == ExtractFloats(inputs, <<"fcf", "growth_rate", "wacc">>, 1)
        x(f) == PyFloat(inputs[f]).v
    IN  IF ~BaseValidateInputs(inputs, GrowthRequiredFields) THEN Raise("ValueError", "Missing required fields")
        ELSE IF conv.kind = "raise" THEN conv
        ELSE GrowthResult(table, x("fcf"), x("growth_rate"), x("wacc"), Lower(inputs["region"].s))

(***************************************************************************)
(* ValuationEngine                                                         *)
(***************************************************************************)
\* self.models of ValuationEngine.__init__
EngineModels == [pre_seed |-> "PreSeedModel", seed |-> "SeedModel", series_a |-> "SeriesAModel"]

\* model.calculate(inputs) on an instance of class `model`; `self` holds the
\* instances' coefficients
ModelCalculate(model, self, inputs) ==
    CASE model = "PreSeedModel" -> PreSeedCalculate(self.weights, inputs)
      [] model = "SeedModel" -> SeedCalculate(self.default_multiple, inputs)
      [] model = "SeriesAModel" -> SeriesACalculate(self.dcf_weight, self.comparable_weight, inputs)
      [] model = "GrowthModel" -> GrowthCalculate(self.region_risk_data, inputs)

\* model.validate_inputs(inputs), the one-argument call of the engine:
\* SeriesAModel and GrowthModel inherit the two-argument method of the base
ModelValidateInputs(model, inputs) ==
    CASE model = "PreSeedModel" -> PreSeedValidateInputs(inputs)
      [] model = "SeedModel" -> SeedValidateInputs(inputs)
      [] OTHER -> Raise("TypeError", "validate_inputs() missing 1 required positional argument: 'required_fields'")

\* model.get_required_fields(): SeriesAModel and GrowthModel define none
ModelGetRequiredFields(model) ==
    CASE model = "PreSeedModel" -> Schema(PreSeedGetRequiredFields)
      [] model = "SeedModel" -> Schema(SeedGetRequiredFields)
      [] OTHER -> Raise("AttributeError", "object has no attribute 'get_required_fields'")

\* each engine method yields the model it invoked ("none" if none) and what
\* it returned or raised
CalculateValuation(registry, self, stage, inputs) ==
    IF stage \notin DOMAIN registry THEN [invoked |-> "none", ret |-> Raise("ValueError", "Unsupported stage")]
    ELSE [invoked |-> registry[stage], ret |-> ModelCalculate(registry[stage], self, inputs)]

\* EngineValidateInputs raising for an unknown stage, as its two siblings do
EngineValidateInputsRaising(registry, stage, inputs) ==
    IF stage \notin DOMAIN registry THEN [invoked |-> "none", ret |-> Raise("ValueError", "Unsupported stage")]
    ELSE [invoked |-> registry[stage], ret |-> ModelValidateInputs(registry[stage], inputs)]

EngineValidateInputs(registry, stage, inputs) ==
    IF stage \notin DOMAIN registry THEN [invoked |-> "none", ret |-> Bool(FALSE)]
    ELSE [invoked |-> registry[stage], ret |-> ModelValidateInputs(registry[stage], inputs)]

EngineGetRequiredFields(registry, stage) ==
    IF stage \notin DOMAIN registry THEN [invoked |-> "none", ret |-> Raise("ValueError", "Unsupported stage")]
    ELSE [invoked |-> registry[stage], ret |-> ModelGetRequiredFields(registry[stage])]

(***************************************************************************)
(* Input grids: the values a caller may pass for each field.               *)
(***************************************************************************)
Ratios == {R(k, RatioSteps) : k \in -1..(RatioSteps + 1)}

UnitRatios == {R(k, RatioSteps) : k \in 0..RatioSteps}

Millions == {Num(k * 1000000) : k \in -1..MaxMillions}

Floats(S) == {FloatV(x) : x \in S}

TamSlots == {Absent, IntV(5000000), StrV("5000000"), FloatV(Num(999999)), FloatV(Num(5000000))} \cup Floats(Millions)

TeamScoreSlots == {Absent, IntV(1), FloatV(R(8, 10))} \cup Floats(Ratios)

TractionSlots == {Absent, IntV(100000), FloatV(Num(100000))} \cup Floats(Millions)

PreSeedInputs ==
    {Mapping([tam |-> a, team_score |-> b, current_traction |-> c]) : a \in TamSlots, b \in TeamScoreSlots, c \in TractionSlots}

MrrSlots == {Absent, IntV(50000), FloatV(Num(9999)), FloatV(Num(10000)), FloatV(Num(50000))}

MomGrowthSlots == {Absent, FloatV(R(-1, 10)), FloatV(Num(0)), FloatV(Num(1)), FloatV(R(11, 10))}

ChurnSlots == {StrV("5%"), FloatV(Num(0)), FloatV(R(1, 100)), FloatV(R(5, 100)), FloatV(Num(1)), FloatV(Num(2))}

CacSlots == {FloatV(Num(-1)), FloatV(Num(0)), FloatV(Num(500)), FloatV(Num(600)), FloatV(Num(700))}

LtvSlots == {Absent, IntV(2000), FloatV(Num(0)), FloatV(Num(2000))}

SeedInputs ==
    {Mapping([mrr |-> a, mom_growth |-> b, churn |-> c, cac |-> d, ltv |-> e]) : a \in MrrSlots, b \in MomGrowthSlots, c \in ChurnSlots, d \in CacSlots, e \in LtvSlots}

DcfSlots == {Absent, IntV(10000000), StrV("n/a")} \cup Floats(Millions)

ComparableSlots == {IntV(8000000)} \cup Floats(Millions)

SeriesAInputs ==
    {Mapping([dcf_value |-> a, comparable_value |-> b, equity_ratio |-> c, debt_ratio |-> d, cost_of_equity |-> e, cost_of_debt |-> f, tax_rate |-> g]) :
        a \in DcfSlots, b \in ComparableSlots, c \in Floats(UnitRatios), d \in Floats(UnitRatios),
        e \in {FloatV(Num(0)), FloatV(R(12, 100))}, f \in {FloatV(Num(0)), FloatV(R(6, 100))}, g \in {Absent, FloatV(Num(0)), FloatV(R(25, 100))}}

FcfSlots == {Absent, IntV(1000000), StrV("n/a")} \cup Floats(Millions)

RegionSlots == {Absent, StrV("europe"), StrV("Europe"), StrV("AFRICA"), StrV("north_america"), StrV("mars")}

GrowthInputs ==
    {Mapping([fcf |-> a, growth_rate |-> b, wacc |-> c, region |-> d]) :
        a \in FcfSlots, b \in {FloatV(R(3, 100))} \cup Floats(Ratios), c \in {Absent, FloatV(R(3, 100)), FloatV(R(1, 10))} \cup Floats(Ratios), d \in RegionSlots}

\* what the engine's callers pass: per field either nothing or the value of
\* the stage's documented example
EnginePreSeedInputs ==
    {Mapping([tam |-> a, team_score |-> b, current_traction |-> c]) :
        a \in {Absent, FloatV(Num(5000000))}, b \in {Absent, FloatV(R(8, 10))}, c \in {Absent, FloatV(Num(100000))}}

EngineSeedInputs ==
    {Mapping([mrr |-> a, mom_growth |-> b, churn |-> c, cac |-> d, ltv |-> e]) :
        a \in {Absent, FloatV(Num(50000))}, b \in {Absent, FloatV(Num(1))}, c \in {Absent, FloatV(R(5, 100))}, d \in {Absent, FloatV(Num(500))}, e \in {Absent, FloatV(Num(2000))}}

EngineSeriesAInputs ==
    {Mapping([dcf_value |-> a, comparable_value |-> b, equity_ratio |-> c, debt_ratio |-> d, cost_of_equity |-> e, cost_of_debt |-> f, tax_rate |-> g]) :
        a \in {Absent, FloatV(Num(10000000))}, b \in {Absent, FloatV(Num(8000000))}, c \in {Absent, FloatV(R(7, 10))}, d \in {Absent, FloatV(R(3, 10))},
        e \in {Absent, FloatV(R(12, 100))}, f \in {Absent, FloatV(R(6, 100))}, g \in {Absent, FloatV(R(25, 100))}}

EngineGrowthInputs ==
    {Mapping([fcf |-> a, growth_rate |-> b, wacc |-> c, region |-> d]) :
        a \in {Absent, FloatV(Num(1000000))}, b \in {Absent, FloatV(R(3, 100))}, c \in {Absent, FloatV(R(1, 10))}, d \in {Absent, StrV("europe")}}

\* the four stable stage keys and two keys that name no stage
StageKeys == {"pre_seed", "seed", "series_a", "growth", "ipo", ""}

EngineInputs(stage) ==
    CASE stage = "pre_seed" -> EnginePreSeedInputs
      [] stage = "seed" -> EngineSeedInputs
      [] stage = "series_a" -> EngineSeriesAInputs
      [] stage = "growth" -> EngineGrowthInputs
      [] OTHER -> EnginePreSeedInputs \cup EngineGrowthInputs

(***************************************************************************)
(* State machine.  A caller holds one engine and one instance of each      *)
(* model; pc = "idle" before a call, "returned" once the call has returned *)
(* or raised, with the call in `call`, the model class whose method ran in *)
(* `invoked` and what came back in `outcome`.                              *)
(***************************************************************************)
\* the coefficients of the model instances
Self ==
    [weights |-> weights, default_multiple |-> default_multiple, dcf_weight |-> dcf_weight,
     comparable_weight |-> comparable_weight, region_risk_data |-> region_risk_data]

coefficients == <<models, weights, default_multiple, dcf_weight, comparable_weight, region_risk_data>>

Init ==
    /\ models = EngineModels
    /\ weights = PreSeedWeights
    /\ default_multiple = Num(12)
    /\ dcf_weight = R(6, 10)
    /\ comparable_weight = R(4, 10)
    /\ region_risk_data = LoadRegionRiskData
    /\ pc = "idle"
    /\ call = NoCall
    /\ invoked = "none"
    /\ outcome = NoOutcome

Returned(target, op, stage, inputs, model, ret) ==
    /\ pc' = "returned"
    /\ call' = [target |-> target, op |-> op, stage |-> stage, inputs |-> inputs]
    /\ invoked' = model
    /\ outcome' = ret

CallCalculateValuation ==
    /\ pc = "idle"
    /\ \E stage \in StageKeys : \E inputs \in EngineInputs(stage) :
          LET r == CalculateValuation(models, Self, stage, inputs)
          IN  Returned("ValuationEngine", "calculate_valuation", stage, inputs, r.invoked, r.ret)
    /\ UNCHANGED coefficients

CallEngineValidateInputs ==
    /\ pc = "idle"
    /\ \E stage \in StageKeys : \E inputs \in EngineInputs(stage) :
          LET r == EngineValidateInputs(models, stage, inputs)
          IN  Returned("ValuationEngine", "validate_inputs", stage, inputs, r.invoked, r.ret)
    /\ UNCHANGED coefficients

CallEngineGetRequiredFields ==
    /\ pc = "idle"
    /\ \E stage \in StageKeys :
          LET r == EngineGetRequiredFields(models, stage)
          IN  Returned("ValuationEngine", "get_required_fields", stage, EmptyDict, r.invoked, r.ret)
    /\ UNCHANGED coefficients

CallPreSeedCalculate ==
    /\ pc = "idle"
    /\ \E inputs \in PreSeedInputs :
          Returned("PreSeedModel", "calculate", "", inputs, "PreSeedModel", PreSeedCalculate(weights, inputs))
    /\ UNCHANGED coefficients

CallPreSeedValidateInputs ==
    /\ pc = "idle"
    /\ \E inputs \in PreSeedInputs :
          Returned("PreSeedModel", "validate_inputs", "", inputs, "PreSeedModel", PreSeedValidateInputs(inputs))
    /\ UNCHANGED coefficients

CallSeedCalculate ==
    /\ pc = "idle"
    /\ \E inputs \in SeedInputs :
          Returned("SeedModel", "calculate", "", inputs, "SeedModel", SeedCalculate(default_multiple, inputs))
    /\ UNCHANGED coefficients

CallSeedValidateInputs ==
    /\ pc = "idle"
    /\ \E inputs \in SeedInputs :
          Returned("SeedModel", "validate_inputs", "", inputs, "SeedModel", SeedValidateInputs(inputs))
    /\ UNCHANGED coefficients

CallSeriesACalculate ==
    /\ pc = "idle"
    /\ \E inputs \in SeriesAInputs :
          Returned("SeriesAModel", "calculate", "", inputs, "SeriesAModel", SeriesACalculate(dcf_weight, comparable_weight, inputs))
    /\ UNCHANGED coefficients

\* CallGrowthCalculate with the region lookup written as
\* region_risk_data.setdefault(region, 0.8), which stores an unknown region
CallGrowthCalculateSetDefault ==
    /\ pc = "idle"
    /\ \E inputs \in GrowthInputs :
          LET ret == GrowthCalculate(region_risk_data, inputs)
              key == Lower(inputs["region"].s)
          IN  /\ Returned("GrowthModel", "calculate", "", inputs, "GrowthModel", ret)
              /\ region_risk_data' = IF ret.kind = "result"
                                     THEN [k \in DOMAIN region_risk_data \cup {key} |-> DictGet(region_risk_data, k, R(8, 10))]
                                     ELSE region_risk_data
    /\ UNCHANGED <<models, weights, default_multiple, dcf_weight, comparable_weight>>

CallGrowthCalculate ==
    /\ pc = "idle"
    /\ \E inputs \in GrowthInputs :
          Returned("GrowthModel", "calculate", "", inputs, "GrowthModel", GrowthCalculate(region_risk_data, inputs))
    /\ UNCHANGED coefficients

\* the caller takes the outcome and is ready for its next call
Return ==
    /\ pc = "returned"
    /\ pc' = "idle"
    /\ call' = NoCall
    /\ invoked' = "none"
    /\ outcome' = NoOutcome
    /\ UNCHANGED coefficients

Next ==
    \/ CallCalculateValuation
    \/ CallEngineValidateInputs
    \/ CallEngineGetRequiredFields
    \/ CallPreSeedCalculate
    \/ CallPreSeedValidateInputs
    \/ CallSeedCalculate
    \/ CallSeedValidateInputs
    \/ CallSeriesACalculate
    \/ CallGrowthCalculate
    \/ Return

Spec == Init /\ [][Next]_vars

(***************************************************************************)
(* Properties                                                              *)
(***************************************************************************)
\* a call of `op` on `target` has returned or raised
Done(target, op) == pc = "returned" /\ call.target = target /\ call.op = op

\* the input mapping holds `field` with a float or int value
Numeric(inputs, field) == field \in DOMAIN inputs /\ inputs[field].t \in {"float", "int"}

InUnit(x) == Le(Num(0), x) /\ Le(x, Num(1))

\* C1: for every PreSeedModel input mapping with tam >= 1,000,000,
\* 0 <= team_score <= 1 and current_traction >= 0, tam and current_traction
\* float- or integer-typed, calculate returns a result whose value is
\* 0.4*tam + 0.6*1,000,000*team_score, whose methodology is "Pre-Seed
\* Scorecard", whose confidence lies in [0,1] and whose risk_factors are
\* exactly market_risk and execution_risk, each in [0,1].
C1_PreSeedContract ==
    (/\ Done("PreSeedModel", "calculate")
     /\ Numeric(call.inputs, "tam") /\ Le(Num(1000000), call.inputs["tam"].v)
     /\ "team_score" \in DOMAIN call.inputs /\ call.inputs["team_score"].t = "float" /\ InUnit(call.inputs["team_score"].v)
     /\ Numeric(call.inputs, "current_traction") /\ Le(Num(0), call.inputs["current_traction"].v))
    => /\ outcome.kind = "result"
       /\ Eq(outcome.value, Add(Mul(R(4, 10), call.inputs["tam"].v), Mul(Mul(R(6, 10), Num(1000000)), call.inputs["team_score"].v)))
       /\ outcome.methodology = "Pre-Seed Scorecard"
       /\ InUnit(outcome.confidence)
       /\ DOMAIN outcome.risk_factors = {"market_risk", "execution_risk"}
       /\ InUnit(outcome.risk_factors["market_risk"])
       /\ InUnit(outcome.risk_factors["execution_risk"])

\* the model each stable stage key stands for
StageModel == [pre_seed |-> "PreSeedModel", seed |-> "SeedModel", series_a |-> "SeriesAModel", growth |-> "GrowthModel"]

\* C2: the registry holds one model per stage key for pre_seed, seed,
\* series_a and growth: calculate_valuation with any of these keys is
\* dispatched to that stage's model and never fails with the
\* Unsupported-Stage error.
C2_FourStagesDispatched ==
    (Done("ValuationEngine", "calculate_valuation") /\ call.stage \in DOMAIN StageModel)
    => /\ call.stage \in DOMAIN models
       /\ invoked = StageModel[call.stage]
       /\ outcome # Raise("ValueError", "Unsupported stage")

\* some field of the sequence `fields` is missing from the input mapping
LacksField(inputs, fields) == \E i \in 1..Len(fields) : fields[i] \notin DOMAIN inputs

\* the fields each registered model requires
StageFields(model) ==
    CASE model = "PreSeedModel" -> <<"tam", "team_score", "current_traction">>
      [] model = "SeedModel" -> <<"mrr", "mom_growth", "churn", "cac", "ltv">>
      [] model = "SeriesAModel" -> SeriesARequiredFields
      [] model = "GrowthModel" -> GrowthRequiredFields

\* C3: for every registered stage key validate_inputs returns a boolean
\* (false whenever inputs lacks a required field of the stage) and
\* get_required_fields returns the model's field schema; neither raises.
C3_RegisteredStageAnswers ==
    /\ (Done("ValuationEngine", "validate_inputs") /\ call.stage \in DOMAIN models)
       => /\ outcome.kind = "bool"
          /\ LacksField(call.inputs, StageFields(models[call.stage])) => ~outcome.b
    /\ (Done("ValuationEngine", "get_required_fields") /\ call.stage \in DOMAIN models)
       => outcome.kind = "schema"

\* C4: for every stage key that is not in the registry, calculate_valuation
\* raises the Unsupported-Stage error without invoking a model,
\* get_required_fields raises the Unsupported-Stage error, and
\* validate_inputs returns false without raising.
C4_UnregisteredStage ==
    (pc = "returned" /\ call.target = "ValuationEngine" /\ call.stage \notin DOMAIN models)
    => /\ invoked = "none"
       /\ call.op = "calculate_valuation" => outcome = Raise("ValueError", "Unsupported stage")
       /\ call.op = "get_required_fields" => outcome = Raise("ValueError", "Unsupported stage")
       /\ call.op = "validate_inputs" => outcome = Bool(FALSE)

\* calculate_valuation for a key outside the registry, with a complete
\* input mapping, has raised
C4_Witness ==
    /\ Done("ValuationEngine", "calculate_valuation")
    /\ call.stage \notin DOMAIN models
    /\ ~LacksField(call.inputs, GrowthRequiredFields)
    /\ outcome.kind = "raise"

\* the schema entry f rejects the input mapping: the field is absent, or its
\* value is not a float, or is below the declared min, or above the declared max
SchemaRejects(inputs, f) ==
    \/ f.field \notin DOMAIN inputs
    \/ inputs[f.field].t # "float"
    \/ ("min" \in DOMAIN f.rules /\ Lt(inputs[f.field].v, f.rules.min))
    \/ ("max" \in DOMAIN f.rules /\ Gt(inputs[f.field].v, f.rules.max))

C6_TractionOptional ==
    (/\ Done("PreSeedModel", "calculate")
     /\ ~SchemaRejects(call.inputs, PreSeedGetRequiredFields[1])
     /\ ~SchemaRejects(call.inputs, PreSeedGetRequiredFields[2])
     /\ "current_traction" \notin DOMAIN call.inputs)
    => /\ outcome.kind = "result"
       /\ Eq(outcome.risk_factors["market_risk"], Num(1))
       /\ Eq(outcome.confidence, Mul(R(3, 10), call.inputs["team_score"].v))

\* the table entry for the lowercased region key, 0.8 when the key is unknown
RegionMultiplier(table, region) ==
    IF Lower(region) \in DOMAIN table THEN table[Lower(region)] ELSE R(8, 10)

\* C7: for every GrowthModel mapping with numeric fcf, growth_rate, wacc and
\* a region string, calculate raises the Domain error if wacc <= growth_rate
\* and otherwise returns a result whose value is
\* fcf*(1+growth_rate)/(wacc-growth_rate) times the region multiplier and
\* whose region_risk is 1 minus that multiplier.
C7_GrowthContract ==
    (/\ Done("GrowthModel", "calculate")
     /\ Numeric(call.inputs, "fcf") /\ Numeric(call.inputs, "growth_rate") /\ Numeric(call.inputs, "wacc")
     /\ "region" \in DOMAIN call.inputs /\ call.inputs["region"].t = "str")
    => LET fcf  == call.inputs["fcf"].v
           g    == call.inputs["growth_rate"].v
           wacc == call.inputs["wacc"].v
           mult == RegionMultiplier(region_risk_data, call.inputs["region"].s)
       IN  IF Le(wacc, g)
           THEN outcome = Raise("ValueError", "WACC must be greater than growth rate")
           ELSE /\ outcome.kind = "result"
                /\ Eq(outcome.value, Mul(Div(Mul(fcf, Add(Num(1), g)), Sub(wacc, g)), mult))
                /\ Eq(outcome.risk_factors["region_risk"], Sub(Num(1), mult))

\* C8: every result returned by calculate of any of the four models has a
\* non-negative value (every number of the model is finite).
C8_ValueNonNegative ==
    (pc = "returned" /\ call.op \in {"calculate", "calculate_valuation"} /\ outcome.kind = "result")
    => Sign(outcome.value) >= 0

\* the coefficients as the constructors set them
InitialSelf ==
    [weights |-> PreSeedWeights, default_multiple |-> Num(12), dcf_weight |-> R(6, 10),
     comparable_weight |-> R(4, 10), region_risk_data |-> LoadRegionRiskData]

C10_SeriesAContract ==
    (Done("SeriesAModel", "calculate") /\ \A i \in 1..Len(SeriesARequiredFields) : Numeric(call.inputs, SeriesARequiredFields[i]))
    => LET x(f)   == call.inputs[f].v
           larger == MaxNum(x("dcf_value"), x("comparable_value"))
           wacc   == Add(Mul(x("equity_ratio"), x("cost_of_equity")), Mul(Mul(x("debt_ratio"), x("cost_of_debt")), Sub(Num(1), x("tax_rate"))))
           rf     == outcome.risk_factors
       IN  /\ outcome.kind = "result"
           /\ Eq(outcome.value, Add(Mul(R(6, 10), x("dcf_value")), Mul(R(4, 10), x("comparable_value"))))
           /\ Sign(larger) # 0
           /\ Eq(rf["valuation_divergence"], Div(AbsNum(Sub(x("dcf_value"), x("comparable_value"))), larger))
           /\ Eq(rf["cost_of_capital_risk"], Div(wacc, R(15, 100)))
           /\ Eq(outcome.confidence, Mul(R(9, 10), Sub(Num(1), Div(Add(Add(rf["capital_structure_risk"], rf["cost_of_capital_risk"]), rf["valuation_divergence"]), Num(3)))))

\* C11: for every SeedModel mapping that passes validate_inputs, calculate
\* returns a result (neither the churn error nor the CAC/LTV warning stops
\* it); the warning is raised exactly when cac/ltv > 0.3 or ltv == 0,
\* unit_economics is cac/ltv (1 when ltv == 0), and confidence is
\* b * (1 - mean(churn_risk, growth_sustainability, unit_economics)) with
\* b = 0.64 when the warning is raised and 0.8 otherwise.
C11_SeedWarningAndConfidence ==
    (Done("SeedModel", "calculate") /\ SeedValidateInputs(call.inputs) = Bool(TRUE))
    => LET cac     == call.inputs["cac"].v
           ltv     == call.inputs["ltv"].v
           warning == Sign(ltv) = 0 \/ Gt(Div(cac, ltv), R(3, 10))
           b       == IF warning THEN R(64, 100) ELSE R(8, 10)
           rf      == outcome.risk_factors
           mean    == Div(Add(Add(rf["churn_risk"], rf["growth_sustainability"]), rf["unit_economics"]), Num(3))
       IN  /\ outcome.kind = "result"
           /\ CacRatioAlert(cac, ltv) = warning
           /\ Eq(rf["unit_economics"], IF Sign(ltv) = 0 THEN Num(1) ELSE Div(cac, ltv))
           /\ Eq(outcome.confidence, Mul(b, Sub(Num(1), mean)))

\* calculate has returned a result for a valid mapping with ltv == 0, where
\* the warning is raised and the mean of the risk factors is below 1
C11_Witness ==
    /\ Done("SeedModel", "calculate")
    /\ SeedValidateInputs(call.inputs) = Bool(TRUE)
    /\ Sign(call.inputs["ltv"].v) = 0
    /\ outcome.kind = "result"
    /\ Sign(outcome.confidence) > 0

\* calculate has returned a result for a valid mapping with cac/ltv exactly
\* 0.3, where no warning is raised
C11_BoundaryReached ==
    /\ Done("SeedModel", "calculate")
    /\ SeedValidateInputs(call.inputs) = Bool(TRUE)
    /\ Sign(call.inputs["ltv"].v) > 0
    /\ Eq(Div(call.inputs["cac"].v, call.inputs["ltv"].v), R(3, 10))
    /\ outcome.kind = "result"

====
